---- MODULE Spec2Model ----
(***************************************************************************)
(* Model of the tenant-isolated revenue lookup: the dashboard endpoint     *)
(* (backend/app/api/v1/dashboard.py), the two-tier cache                    *)
(* (backend/app/services/cache.py) and the revenue aggregator               *)
(* (backend/app/services/reservations.py).                                  *)
(*                                                                         *)
(* Conventions.  An Optional value is a sequence: <<>> is None, <<v>> is   *)
(* the value v.  A Python str that the code parses or formats (a total) is  *)
(* a sequence of one-character strings; identifiers and cache keys, which   *)
(* the code only concatenates and compares, are TLA+ strings.  A Decimal is *)
(* [sign, coef, exp] with value (-1)^sign * coef * 10^exp.                  *)
(***************************************************************************)
EXTENDS Integers, Sequences, FiniteSets, TLC

VARIABLES
    now,                    \* the reading of time.time()
    _memory_cache,          \* cache.py:23, key -> summary
    _memory_cache_expiry,   \* cache.py:24, key -> absolute expiry
    redis_store,            \* the external tier: key -> [value, expires_at]
    calls,                  \* the requests: each one's position and locals
    agg,                    \* one aggregator call: its arguments and result
    monthly                 \* one monthly-revenue call: its arguments and outcome

vars == <<now, _memory_cache, _memory_cache_expiry, redis_store, calls, agg, monthly>>

None == <<>>
Some(v) == <<v>>

-----------------------------------------------------------------------------
(* Decimal arithmetic (decimal.Decimal as the code uses it)                 *)

RECURSIVE Pow10(_)
Pow10(n) == IF n = 0 THEN 1 ELSE 10 * Pow10(n - 1)

DigitChars == <<"0", "1", "2", "3", "4", "5", "6", "7", "8", "9">>

DigitValue(ch) == CHOOSE i \in 0..9 : DigitChars[i + 1] = ch

\* the decimal digits of a natural number, most significant first
RECURSIVE Digits(_)
Digits(n) == IF n < 10 THEN <<DigitChars[n + 1]>>
             ELSE Append(Digits(n \div 10), DigitChars[(n % 10) + 1])

RECURSIVE ZeroPad(_, _)
ZeroPad(s, width) == IF Len(s) >= width THEN s ELSE ZeroPad(<<"0">> \o s, width)

RECURSIVE DigitsValue(_)
DigitsValue(s) == IF s = <<>> THEN 0
                  ELSE 10 * DigitsValue(SubSeq(s, 1, Len(s) - 1)) + DigitValue(s[Len(s)])

\* str(Decimal) for the exponents the program meets (exp <= 0, plain notation)
Decimal_str(d) ==
    LET frac == 0 - d.exp
        ds   == ZeroPad(Digits(d.coef), frac + 1)
        int  == SubSeq(ds, 1, Len(ds) - frac)
        body == IF frac = 0 THEN int
                ELSE int \o <<".">> \o SubSeq(ds, Len(ds) - frac + 1, Len(ds))
    IN  IF d.sign = 1 THEN <<"-">> \o body ELSE body

\* Decimal(str): sign, digits, optional point
Decimal(s) ==
    LET neg   == s # <<>> /\ s[1] = "-"
        t     == IF neg THEN SubSeq(s, 2, Len(s)) ELSE s
        dots  == {i \in 1..Len(t) : t[i] = "."}
        point == IF dots = {} THEN Len(t) + 1 ELSE CHOOSE i \in dots : TRUE
        int   == SubSeq(t, 1, point - 1)
        fr    == SubSeq(t, point + 1, Len(t))
    IN  [sign |-> IF neg THEN 1 ELSE 0,
         coef |-> DigitsValue(int \o fr),
         exp  |-> 0 - Len(fr)]

\* Decimal.quantize(Decimal("0.01"), rounding=...)
quantize(d, rounding) ==
    IF d.exp >= 0 - 2
    THEN [sign |-> d.sign, coef |-> d.coef * Pow10(d.exp + 2), exp |-> 0 - 2]
    ELSE LET scale == Pow10((0 - 2) - d.exp)
             q     == d.coef \div scale
             r     == d.coef % scale
             up    == CASE rounding = "ROUND_HALF_UP"   -> 2 * r >= scale
                        [] rounding = "ROUND_HALF_EVEN" ->
                               2 * r > scale \/ (2 * r = scale /\ q % 2 = 1)
         IN  [sign |-> d.sign, coef |-> IF up THEN q + 1 ELSE q, exp |-> 0 - 2]

\* decimal.getcontext().rounding, which quantize uses when no rounding is passed
DefaultRounding == "ROUND_HALF_EVEN"

\* float(Decimal): the numeric value; the trailing zeros of the decimal
\* representation are not part of a float (4975.50 becomes 4975.5)
RECURSIVE float(_)
float(d) == IF d.exp < 0 /\ d.coef % 10 = 0
            THEN float([sign |-> d.sign, coef |-> d.coef \div 10, exp |-> d.exp + 1])
            ELSE d

-----------------------------------------------------------------------------
(* The data store as calculate_total_revenue sees it: whether a session can *)
(* be had and the query runs, and the rows of the reservations table        *)

Min(a, b) == IF a < b THEN a ELSE b

SignedCoef(d, e) == (IF d.sign = 1 THEN 0 - 1 ELSE 1) * d.coef * Pow10(d.exp - e)

\* exact NUMERIC addition
DecAdd(a, b) ==
    LET e == Min(a.exp, b.exp)
        v == SignedCoef(a, e) + SignedCoef(b, e)
    IN  [sign |-> IF v < 0 THEN 1 ELSE 0, coef |-> IF v < 0 THEN 0 - v ELSE v, exp |-> e]

\* SUM(total_amount): NULL rows are skipped, the sum of no value is NULL
RECURSIVE SqlSum(_)
SqlSum(rows) ==
    IF rows = <<>> THEN None
    ELSE LET rest == SqlSum(Tail(rows))
             a    == Head(rows).total_amount
         IN  IF a = None THEN rest
             ELSE IF rest = None THEN a
             ELSE Some(DecAdd(a[1], rest[1]))

\* the query of reservations.py:70-84 and its fetchone()
FetchRow(table, property_id, tenant_id) ==
    LET Match(r) == r.property_id = property_id /\ r.tenant_id = tenant_id
        rows     == SelectSeq(table, Match)
    IN  IF rows = <<>> THEN None
        ELSE Some([total_revenue |-> SqlSum(rows), reservation_count |-> Len(rows)])

mock_data ==
    [p \in {"prop-001", "prop-002", "prop-003", "prop-004", "prop-005"} |->
        CASE p = "prop-001" -> [total |-> <<"1", "0", "0", "0", ".", "0", "0">>, count |-> 3]
          [] p = "prop-002" -> [total |-> <<"4", "9", "7", "5", ".", "5", "0">>, count |-> 4]
          [] p = "prop-003" -> [total |-> <<"6", "1", "0", "0", ".", "5", "0">>, count |-> 2]
          [] p = "prop-004" -> [total |-> <<"1", "7", "7", "6", ".", "5", "0">>, count |-> 4]
          [] p = "prop-005" -> [total |-> <<"3", "2", "5", "6", ".", "0", "0">>, count |-> 3]]

\* the except branch with the substitute table looked up by tenant_id
MockSummaryByTenant(property_id, tenant_id) ==
    LET mock_property_data ==
            IF tenant_id \in DOMAIN mock_data THEN mock_data[tenant_id]
            ELSE [total |-> <<"0", ".", "0", "0">>, count |-> 0]
        total == quantize(Decimal(mock_property_data.total), DefaultRounding)
    IN  [property_id |-> property_id,
         tenant_id   |-> tenant_id,
         total       |-> Decimal_str(total),
         currency    |-> "USD",
         count       |-> mock_property_data.count]

\* reservations.py:106-128, the except branch
MockSummary(property_id, tenant_id) ==
    LET mock_property_data ==
            IF property_id \in DOMAIN mock_data THEN mock_data[property_id]
            ELSE [total |-> <<"0", ".", "0", "0">>, count |-> 0]
        total == quantize(Decimal(mock_property_data.total), DefaultRounding)
    IN  [property_id |-> property_id,
         tenant_id   |-> tenant_id,
         total       |-> Decimal_str(total),
         currency    |-> "USD",
         count       |-> mock_property_data.count]

\* reservations.py:86-102, the rows came back
StoreSummary(property_id, tenant_id, row) ==
    IF row # None /\ row[1].total_revenue # None
    THEN LET total_revenue ==
                 quantize(Decimal(Decimal_str(row[1].total_revenue[1])), DefaultRounding)
         IN  [property_id |-> property_id,
              tenant_id   |-> tenant_id,
              total       |-> Decimal_str(total_revenue),
              currency    |-> "USD",
              count       |-> row[1].reservation_count]
    ELSE [property_id |-> property_id,
          tenant_id   |-> tenant_id,
          total       |-> <<"0", ".", "0", "0">>,
          currency    |-> "USD",
          count       |-> 0]

\* db.status: "ok", "unavailable" (no pool, no session factory) or
\* "query_error" (execute raises); every exception lands in the except branch
calculate_total_revenue(property_id, tenant_id, db) ==
    IF db.status = "ok"
    THEN StoreSummary(property_id, tenant_id, FetchRow(db.table, property_id, tenant_id))
    ELSE MockSummary(property_id, tenant_id)

-----------------------------------------------------------------------------
(* calculate_monthly_revenue: the month bounds in the property's timezone   *)
(* (datetime and zoneinfo as reservations.py:21-33 uses them)               *)

IsLeap(year) == year % 4 = 0 /\ (year % 100 # 0 \/ year % 400 = 0)

DaysInMonth(year, month) ==
    IF month = 2 THEN (IF IsLeap(year) THEN 29 ELSE 28)
    ELSE IF month \in {4, 6, 9, 11} THEN 30 ELSE 31

\* datetime(year, month, day, hour, minute, tzinfo=tz): ValueError (None)
\* outside MINYEAR..MAXYEAR, 1..12 and the days of the month
datetime(year, month, day, hour, minute) ==
    IF year \in 1..9999 /\ month \in 1..12 /\ day \in 1..DaysInMonth(year, month)
    THEN Some([year |-> year, month |-> month, day |-> day,
               hour |-> hour, minute |-> minute])
    ELSE None

\* the zones of the time-zone database the model knows, by their exact key
ZoneKeys == {"UTC", "America/New_York", "Asia/Kolkata"}

\* ZoneInfo falling back to UTC for a key it does not know
ZoneInfoOrUTC(key) ==
    IF key \in ZoneKeys THEN [ok |-> TRUE, tz |-> key, error |-> ""]
    ELSE [ok |-> TRUE, tz |-> "UTC", error |-> ""]

\* ZoneInfo(key): ZoneInfoNotFoundError for a key the database lacks,
\* ValueError for a key that is no normalized relative path
ZoneInfo(key) ==
    IF key \in ZoneKeys THEN [ok |-> TRUE, tz |-> key, error |-> ""]
    ELSE IF key = "" THEN [ok |-> FALSE, tz |-> "", error |-> "ValueError"]
    ELSE [ok |-> FALSE, tz |-> "", error |-> "ZoneInfoNotFoundError"]

\* tz.utcoffset(dt) in minutes for dt at 00:00 on the first of a month, in the
\* years the current rules cover (United States rule of 2007: daylight time
\* from the second Sunday of March, 02:00, to the first Sunday of November,
\* 02:00; India: +05:30 all year)
utcoffset(tz, dt) ==
    CASE tz = "UTC"              -> 0
      [] tz = "America/New_York" -> IF dt.month \in 4..11 THEN 0 - 240 ELSE 0 - 300
      [] tz = "Asia/Kolkata"     -> 330

\* the day before and the day after a date; OverflowError (None) past the
\* range of datetime
DayBefore(dt) ==
    IF dt.day > 1 THEN Some([dt EXCEPT !.day = @ - 1])
    ELSE IF dt.month > 1
         THEN Some([dt EXCEPT !.month = @ - 1, !.day = DaysInMonth(dt.year, dt.month - 1)])
    ELSE IF dt.year > 1
         THEN Some([dt EXCEPT !.year = @ - 1, !.month = 12, !.day = 31])
    ELSE None

DayAfter(dt) ==
    IF dt.day < DaysInMonth(dt.year, dt.month) THEN Some([dt EXCEPT !.day = @ + 1])
    ELSE IF dt.month < 12 THEN Some([dt EXCEPT !.month = @ + 1, !.day = 1])
    ELSE IF dt.year < 9999 THEN Some([dt EXCEPT !.year = @ + 1, !.month = 1, !.day = 1])
    ELSE None

\* dt.astimezone(timezone.utc) for a local dt of zone tz: dt - utcoffset
astimezone_utc(tz, dt) ==
    LET total == dt.hour * 60 + dt.minute - utcoffset(tz, dt)
        clock == total % 1440
        day   == IF total < 0 THEN DayBefore(dt)
                 ELSE IF total >= 1440 THEN DayAfter(dt)
                 ELSE Some(dt)
    IN  IF day = None THEN None
        ELSE Some([day[1] EXCEPT !.hour = clock \div 60, !.minute = clock % 60])

MonthlyRaised(error) ==
    [outcome |-> "raised", error |-> error, tz |-> None,
     start_utc |-> None, end_utc |-> None, result |-> None]

\* reservations.py:6-50; zone is the outcome of ZoneInfo(property_timezone)
MonthlyOutcome(zone, month, year) ==
    IF ~zone.ok THEN MonthlyRaised(zone.error)
    ELSE
    LET tz          == zone.tz
        start_local == datetime(year, month, 1, 0, 0)
        end_local   == IF month < 12 THEN datetime(year, month + 1, 1, 0, 0)
                       ELSE datetime(year + 1, 1, 1, 0, 0)
    IN  IF start_local = None \/ end_local = None THEN MonthlyRaised("ValueError")
        ELSE
        LET start_utc == astimezone_utc(tz, start_local[1])
            end_utc   == astimezone_utc(tz, end_local[1])
        IN  IF start_utc = None \/ end_utc = None THEN MonthlyRaised("OverflowError")
            ELSE [outcome |-> "returned", error |-> "", tz |-> Some(tz),
                  start_utc |-> start_utc, end_utc |-> end_utc,
                  result |-> Some([sign |-> 0, coef |-> 0, exp |-> 0 - 2])]

\* property_timezone: str = "UTC" (reservations.py:11)
TimezoneArgument(property_timezone) ==
    IF property_timezone = None THEN "UTC" ELSE property_timezone[1]

-----------------------------------------------------------------------------
(* dashboard.py: the ownership gate                                         *)

TENANT_PROPERTIES ==
    [t \in {"tenant-a", "tenant-b"} |->
        IF t = "tenant-a" THEN {"prop-001", "prop-004", "prop-005"}
        ELSE {"prop-002", "prop-003"}]

\* current_user is a mapping; a missing, None or empty tenant_id is ""
_get_tenant_id(current_user) ==
    IF current_user.tenant_id # "" THEN current_user.tenant_id ELSE "default_tenant"

\* the gate asking whether any tenant lists the property
OwnedBySomeTenant(tenant_id, property_id) ==
    \E t \in DOMAIN TENANT_PROPERTIES : property_id \in TENANT_PROPERTIES[t]

_tenant_owns_property(tenant_id, property_id) ==
    LET allowed == IF tenant_id \in DOMAIN TENANT_PROPERTIES
                   THEN TENANT_PROPERTIES[tenant_id] ELSE {}
    IN  IF allowed = {} THEN FALSE ELSE property_id \in allowed

\* the refusal telling a property of another tenant from one that does not exist
DeniedAsForbidden(tenant_id, property_id) ==
    IF \E t \in DOMAIN TENANT_PROPERTIES : property_id \in TENANT_PROPERTIES[t]
    THEN [status |-> 403, detail |-> "Forbidden", body |-> None]
    ELSE [status |-> 404, detail |-> "Property not found", body |-> None]

\* dashboard.py:49, raise HTTPException(status_code=404, ...)
DeniedResponse(tenant_id, property_id) ==
    [status |-> 404, detail |-> "Property not found", body |-> None]

\* dashboard.py:53-66
SummaryResponse(revenue_data) ==
    LET total_dec == quantize(Decimal(revenue_data.total), "ROUND_HALF_UP")
    IN  [status |-> 200, detail |-> "",
         body   |-> Some([property_id        |-> revenue_data.property_id,
                          total_revenue      |-> float(total_dec),
                          currency           |-> revenue_data.currency,
                          reservations_count |-> revenue_data.count])]

-----------------------------------------------------------------------------
(* cache.py: the local tier, the key and the wire format                    *)

ttl_seconds == 300

\* the key without the tenant
cache_key_by_property(tenant_id, property_id) == "revenue:" \o property_id

cache_key(tenant_id, property_id) == "revenue:" \o tenant_id \o ":" \o property_id

MapPut(f, k, v) == [x \in DOMAIN f \cup {k} |-> IF x = k THEN v ELSE f[x]]
MapPop(f, k) == [x \in DOMAIN f \ {k} |-> f[x]]

\* cache.py:30-31, the entry has an expiry and it lies before time.time()
MemExpired(key) ==
    key \in DOMAIN _memory_cache_expiry /\ _memory_cache_expiry[key] < now

\* what _mem_get returns
_mem_get(key) ==
    IF MemExpired(key) THEN None
    ELSE IF key \in DOMAIN _memory_cache THEN Some(_memory_cache[key]) ELSE None

\* _mem_get taking the entry out on every read
MemGetCachePops(key) == MapPop(_memory_cache, key)

\* _mem_get purging the value and keeping its expiry
MemGetExpiryKeeps(key) == _memory_cache_expiry

\* what _mem_get leaves in the two maps (cache.py:32-33)
MemGetCache(key) == IF MemExpired(key) THEN MapPop(_memory_cache, key) ELSE _memory_cache
MemGetExpiry(key) ==
    IF MemExpired(key) THEN MapPop(_memory_cache_expiry, key) ELSE _memory_cache_expiry

\* _mem_set recording the write time as the expiry
MemSetExpiryNoTtl(me, key, ttl) == MapPut(me, key, now)

\* _mem_set leaving the value map as it is
MemSetCacheSkips(mc, key, value) == mc

\* _mem_set applied to the maps mc and me
MemSetCache(mc, key, value) == MapPut(mc, key, value)
MemSetExpiry(me, key, ttl) == MapPut(me, key, now + ttl)

SummaryFields == <<"property_id", "tenant_id", "total", "currency", "count">>

\* a JSON string and a JSON number, as json.dumps writes a str and an int
JsonString(v) == [type |-> "string", text |-> v]
JsonNumber(n) ==
    [type |-> "number", text |-> IF n < 0 THEN <<"-">> \o Digits(0 - n) ELSE Digits(n)]

\* what json.loads makes of a value: a str of a string, an int of a number
\* without a fraction, a float of a number with one
JsonValue(tok) ==
    IF tok.type = "string" THEN tok.text
    ELSE IF \E i \in 1..Len(tok.text) : tok.text[i] = "." THEN float(Decimal(tok.text))
    ELSE IF tok.text[1] = "-" THEN 0 - DigitsValue(Tail(tok.text))
    ELSE DigitsValue(tok.text)

\* json.dumps writing the total as a number
json_dumps_total_as_number(d) ==
    << <<"property_id", JsonString(d.property_id)>>,
       <<"tenant_id", JsonString(d.tenant_id)>>,
       <<"total", [type |-> "number", text |-> Decimal_str(float(Decimal(d.total)))]>>,
       <<"currency", JsonString(d.currency)>>,
       <<"count", JsonNumber(d.count)>> >>

\* json.dumps of a summary: the members in order, each a name and its value
json_dumps(d) ==
    << <<"property_id", JsonString(d.property_id)>>,
       <<"tenant_id", JsonString(d.tenant_id)>>,
       <<"total", JsonString(d.total)>>,
       <<"currency", JsonString(d.currency)>>,
       <<"count", JsonNumber(d.count)>> >>

\* bytes json.loads accepts
JsonDecodable(b) ==
    /\ Len(b) = Len(SummaryFields)
    /\ \A i \in 1..Len(b) : b[i][1] = SummaryFields[i]

json_loads(b) ==
    [property_id |-> JsonValue(b[1][2]), tenant_id |-> JsonValue(b[2][2]),
     total |-> JsonValue(b[3][2]), currency |-> JsonValue(b[4][2]),
     count |-> JsonValue(b[5][2])]

\* bytes that are no JSON document
Garbage == << <<"\\xff">> >>

\* the external tier answers GET with the value while its TTL runs
RedisLive(key) == key \in DOMAIN redis_store /\ now < redis_store[key].expires_at
RedisGet(key) == IF RedisLive(key) THEN Some(redis_store[key].value) ELSE None

-----------------------------------------------------------------------------
(* Bounds and the inputs the requests are drawn from                        *)

MaxCalls == 3       \* requests in one run
MaxRows == 2        \* rows of a reservations table

Slots == 1..MaxCalls

\* clock readings: the start, and just before, at and just after one TTL
Instants == {0, ttl_seconds - 1, ttl_seconds, ttl_seconds + 1}

Users == {[tenant_id |-> "tenant-a"], [tenant_id |-> "tenant-b"], [tenant_id |-> ""]}
DashProperties == {"prop-002", "prop-999"}
DirectTenants == {"tenant-a", "tenant-b"}
DirectProperties == {"prop-002"}

\* the pair whose lookups are followed through time
TimedTenant == "tenant-b"
TimedProperty == "prop-002"

\* clock readings where only before and after expiry matter
CoarseInstants == {0, ttl_seconds + 1}

Dec(sign, coef, exp) == [sign |-> sign, coef |-> coef, exp |-> exp]

Row(property_id, tenant_id, total_amount) ==
    [property_id |-> property_id, tenant_id |-> tenant_id, total_amount |-> total_amount]

\* the data store as the cached lookups find it: down, or up with these rows
CacheDbs ==
    {[status |-> "unavailable", table |-> <<>>],
     [status |-> "ok",
      table  |-> <<Row("prop-002", "tenant-b", Some(Dec(0, 100125, 0 - 3))),
                   Row("prop-001", "tenant-a", Some(Dec(0, 5000, 0 - 2)))>>]}

NoOps == [mem_get |-> 0, mem_set |-> 0, redis_get |-> 0, redis_setex |-> 0, compute |-> 0]

IdleCall ==
    [pc          |-> "idle",     \* idle, redis_get, db, redis_setex, done
     entry       |-> "",         \* dashboard: through the endpoint; direct: the service
     property_id |-> "",
     tenant_id   |-> "",
     key         |-> "",
     t_lookup    |-> 0 - 1,      \* time.time() at _mem_get, while the external get is out
     computed    |-> None,       \* what calculate_total_revenue returned
     t_cached    |-> 0 - 1,      \* time.time() at this call's _mem_set
     result      |-> None,       \* what get_revenue_summary returned
     source      |-> "none",     \* mem, redis, compute
     outcome     |-> "none",     \* returned, raised, http_error
     response    |-> None,       \* what the endpoint answered
     ops         |-> NoOps]      \* collaborator calls made so far

AggIdle ==
    [property_id |-> "", tenant_id |-> "",
     db |-> [status |-> "unavailable", table |-> <<>>],
     result   |-> None,      \* what calculate_total_revenue returned
     response |-> None,      \* the endpoint's rendering of it
     written  |-> None,      \* json.dumps of it, as sent to the external tier
     loaded   |-> None]      \* json.loads of what was written

MonthlyIdle ==
    [property_timezone |-> None,   \* the argument as passed; None: left out
     month     |-> 1,
     year      |-> 1,
     pc        |-> "idle",         \* idle, done
     outcome   |-> "none",         \* returned, raised
     error     |-> "",             \* the exception's class
     tz        |-> None,           \* the zone the bounds were computed in
     start_utc |-> None,
     end_utc   |-> None,
     result    |-> None]

Init ==
    /\ now = 0
    /\ _memory_cache = <<>>
    /\ _memory_cache_expiry = <<>>
    /\ redis_store = <<>>
    /\ calls = [c \in Slots |-> IdleCall]
    /\ agg = AggIdle
    /\ monthly = MonthlyIdle

-----------------------------------------------------------------------------
(* get_revenue_summary, cut at its suspension points                        *)

\* return data (and, through the endpoint, dashboard.py:53-66)
Returned(call, data, source) ==
    [call EXCEPT !.pc = "done", !.result = Some(data), !.source = source,
                 !.outcome = "returned",
                 !.response = IF call.entry = "dashboard"
                              THEN Some(SummaryResponse(data)) ELSE None]

\* the external get's exception leaving get_revenue_summary
RedisGetErrorPropagates(call) ==
    [call EXCEPT !.pc = "done", !.t_lookup = 0 - 1, !.outcome = "raised",
                 !.ops.redis_get = @ + 1]

\* the external get sent again after it failed
RedisGetErrorRetries(call) == [call EXCEPT !.ops.redis_get = @ + 1]

\* cache.py:70-72, the except branch after the external get
AfterRedisGetError(call) ==
    [call EXCEPT !.pc = "db", !.t_lookup = 0 - 1, !.ops.redis_get = @ + 1]

\* the external set's exception leaving get_revenue_summary
RedisSetexErrorPropagates(call) ==
    [call EXCEPT !.pc = "done", !.outcome = "raised", !.ops.redis_setex = @ + 1]

\* cache.py:84-85, the except branch after the external set
AfterRedisSetexError(call) ==
    Returned([call EXCEPT !.ops.redis_setex = @ + 1],
             call.computed[1], "compute")

\* slots are taken in order
CanStart(c) == calls[c].pc = "idle" /\ \A d \in Slots : d < c => calls[d].pc # "idle"

\* cache.py:53-64: the key, the local tier, then the external get is sent
Enter(c, entry, property_id, tenant_id) ==
    LET key     == cache_key(tenant_id, property_id)
        mem_hit == _mem_get(key)
        started == [calls[c] EXCEPT !.entry = entry, !.property_id = property_id,
                                    !.tenant_id = tenant_id, !.key = key,
                                    !.ops.mem_get = @ + 1]
    IN  /\ _memory_cache' = MemGetCache(key)
        /\ _memory_cache_expiry' = MemGetExpiry(key)
        /\ calls' = [calls EXCEPT ![c] =
                        IF mem_hit # None THEN Returned(started, mem_hit[1], "mem")
                        ELSE [started EXCEPT !.pc = "redis_get", !.t_lookup = now]]
        /\ UNCHANGED <<now, redis_store, agg, monthly>>

\* the service called by itself
get_revenue_summary(c, property_id, tenant_id) ==
    /\ CanStart(c)
    /\ Enter(c, "direct", property_id, tenant_id)

\* dashboard.py:45-51
get_dashboard_summary(c, current_user, property_id) ==
    /\ CanStart(c)
    /\ LET tenant_id == _get_tenant_id(current_user)
       IN  IF ~_tenant_owns_property(tenant_id, property_id)
           THEN /\ calls' = [calls EXCEPT ![c] =
                                [@ EXCEPT !.pc = "done", !.entry = "dashboard",
                                          !.property_id = property_id,
                                          !.tenant_id = tenant_id,
                                          !.outcome = "http_error",
                                          !.response =
                                              Some(DeniedResponse(tenant_id, property_id))]]
                /\ UNCHANGED <<now, _memory_cache, _memory_cache_expiry, redis_store, agg, monthly>>
           ELSE Enter(c, "dashboard", property_id, tenant_id)

\* cache.py:64, r.get raises
RedisGetRaises(c) ==
    /\ calls[c].pc = "redis_get"
    /\ calls' = [calls EXCEPT ![c] = AfterRedisGetError(@)]
    /\ UNCHANGED <<now, _memory_cache, _memory_cache_expiry, redis_store, agg, monthly>>

\* what r.get may answer: the stored value or nothing, or bytes that are no
\* JSON document
RedisAnswers(key) == {RedisGet(key), Some(Garbage)}

\* cache.py:64-69, r.get answers cached
RedisGetReturns(c, cached) ==
    /\ calls[c].pc = "redis_get"
    /\ LET call == calls[c]
       IN  IF cached # None /\ cached[1] # <<>>
           THEN IF JsonDecodable(cached[1])
                THEN LET data == json_loads(cached[1])
                     IN  /\ _memory_cache' = MemSetCache(_memory_cache, call.key, data)
                         /\ _memory_cache_expiry' =
                                MemSetExpiry(_memory_cache_expiry, call.key, ttl_seconds)
                         /\ calls' = [calls EXCEPT ![c] =
                                Returned([call EXCEPT !.t_lookup = 0 - 1, !.t_cached = now,
                                                      !.ops.redis_get = @ + 1,
                                                      !.ops.mem_set = @ + 1],
                                         data, "redis")]
                ELSE /\ calls' = [calls EXCEPT ![c] = AfterRedisGetError(@)]
                     /\ UNCHANGED <<_memory_cache, _memory_cache_expiry>>
           ELSE /\ calls' = [calls EXCEPT ![c] =
                                [call EXCEPT !.pc = "db", !.t_lookup = 0 - 1,
                                             !.ops.redis_get = @ + 1]]
                /\ UNCHANGED <<_memory_cache, _memory_cache_expiry>>
    /\ UNCHANGED <<now, redis_store, agg, monthly>>

\* cache.py:77-83: the aggregator answers, the local tier is written, the
\* external set is sent
Compute(c, db) ==
    /\ calls[c].pc = "db"
    /\ LET call   == calls[c]
           result == calculate_total_revenue(call.property_id, call.tenant_id, db)
       IN  /\ _memory_cache' = MemSetCache(_memory_cache, call.key, result)
           /\ _memory_cache_expiry' =
                  MemSetExpiry(_memory_cache_expiry, call.key, ttl_seconds)
           /\ calls' = [calls EXCEPT ![c] =
                  [call EXCEPT !.pc = "redis_setex", !.computed = Some(result),
                               !.t_cached = now, !.ops.compute = @ + 1,
                               !.ops.mem_set = @ + 1]]
    /\ UNCHANGED <<now, redis_store, agg, monthly>>

\* cache.py:83-87, r.setex succeeds
RedisSetexOk(c) ==
    /\ calls[c].pc = "redis_setex"
    /\ LET call == calls[c]
       IN  /\ redis_store' = MapPut(redis_store, call.key,
                                    [value      |-> json_dumps(call.computed[1]),
                                     expires_at |-> now + ttl_seconds])
           /\ calls' = [calls EXCEPT ![c] =
                  Returned([call EXCEPT !.ops.redis_setex = @ + 1],
                           call.computed[1], "compute")]
    /\ UNCHANGED <<now, _memory_cache, _memory_cache_expiry, agg, monthly>>

\* cache.py:83-87, r.setex raises
RedisSetexRaises(c) ==
    /\ calls[c].pc = "redis_setex"
    /\ calls' = [calls EXCEPT ![c] = AfterRedisSetexError(@)]
    /\ UNCHANGED <<now, _memory_cache, _memory_cache_expiry, redis_store, agg, monthly>>

\* time passes
Tick(t) ==
    /\ t > now
    /\ now' = t
    /\ UNCHANGED <<_memory_cache, _memory_cache_expiry, redis_store, calls, agg, monthly>>

\* the steps every request takes after it entered
Steps ==
    \/ \E c \in Slots : RedisGetRaises(c)
    \/ \E c \in Slots : \E cached \in RedisAnswers(calls[c].key) : RedisGetReturns(c, cached)
    \/ \E c \in Slots, db \in CacheDbs : Compute(c, db)
    \/ \E c \in Slots : RedisSetexOk(c)
    \/ \E c \in Slots : RedisSetexRaises(c)

\* lookups of the service for one pair, as time passes
Next ==
    \/ \E c \in Slots : get_revenue_summary(c, TimedProperty, TimedTenant)
    \/ Steps
    \/ \E t \in Instants : Tick(t)

Spec == Init /\ [][Next]_vars

\* lookups of the service by several tenants for one property
NextTenants ==
    \/ \E c \in Slots, p \in DirectProperties, t \in DirectTenants :
           get_revenue_summary(c, p, t)
    \/ Steps
    \/ \E t \in CoarseInstants : Tick(t)

SpecTenants == Init /\ [][NextTenants]_vars

\* lookups of the service with identifiers that contain the separator of the
\* key: each pair is <<property_id, tenant_id>>
ColonPairs == {<<"b:c", "a">>, <<"c", "a:b">>}

NextColon ==
    \/ \E c \in Slots, pt \in ColonPairs : get_revenue_summary(c, pt[1], pt[2])
    \/ Steps
    \/ \E t \in CoarseInstants : Tick(t)

SpecColon == Init /\ [][NextColon]_vars

\* requests made through the endpoint
NextDash ==
    \/ \E c \in Slots, u \in Users, p \in DashProperties : get_dashboard_summary(c, u, p)
    \/ Steps
    \/ \E t \in CoarseInstants : Tick(t)

SpecDash == Init /\ [][NextDash]_vars

-----------------------------------------------------------------------------
(* The aggregator by itself: one call of calculate_total_revenue on each    *)
(* state of the data store, and the endpoint's rendering of its result      *)

AggProperties == {"prop-001", "prop-002", "prop-003", "prop-004", "prop-005", "prop-999"}
AggTenants == {"tenant-a", "tenant-b"}

\* total_amount of a row: NULL, ties at the third decimal on either side of
\* zero, amounts below a cent, whole and two-decimal amounts
AggAmounts ==
    {None, Some(Dec(0, 125, 0 - 3)), Some(Dec(0, 135, 0 - 3)), Some(Dec(1, 125, 0 - 3)),
     Some(Dec(0, 1, 0 - 3)), Some(Dec(0, 497550, 0 - 2)), Some(Dec(0, 5, 0))}

AggRows == {Row("prop-002", t, a) : t \in AggTenants, a \in AggAmounts}

AggTables == UNION {[1..n -> AggRows] : n \in 0..MaxRows}

AggDbs ==
    {[status |-> "ok", table |-> tb] : tb \in AggTables}
        \cup {[status |-> st, table |-> <<>>] : st \in {"unavailable", "query_error"}}

InitAgg ==
    /\ now = 0
    /\ _memory_cache = <<>>
    /\ _memory_cache_expiry = <<>>
    /\ redis_store = <<>>
    /\ calls = [c \in Slots |-> IdleCall]
    /\ agg \in {[AggIdle EXCEPT !.property_id = p, !.tenant_id = t, !.db = db] :
                    p \in AggProperties, t \in AggTenants, db \in AggDbs}
    /\ monthly = MonthlyIdle

\* reservations.py:53-128
Aggregate ==
    /\ agg.result = None
    /\ agg' = [agg EXCEPT !.result =
                  Some(calculate_total_revenue(agg.property_id, agg.tenant_id, agg.db))]
    /\ UNCHANGED <<now, _memory_cache, _memory_cache_expiry, redis_store, calls, monthly>>

\* dashboard.py:53-66 on that result
Present ==
    /\ agg.result # None
    /\ agg.response = None
    /\ agg' = [agg EXCEPT !.response = Some(SummaryResponse(agg.result[1]))]
    /\ UNCHANGED <<now, _memory_cache, _memory_cache_expiry, redis_store, calls, monthly>>

\* cache.py:83, json.dumps(result)
Dump ==
    /\ agg.result # None
    /\ agg.written = None
    /\ agg' = [agg EXCEPT !.written = Some(json_dumps(agg.result[1]))]
    /\ UNCHANGED <<now, _memory_cache, _memory_cache_expiry, redis_store, calls, monthly>>

\* cache.py:65-66, json.loads(cached)
Load ==
    /\ agg.written # None
    /\ agg.loaded = None
    /\ JsonDecodable(agg.written[1])
    /\ agg' = [agg EXCEPT !.loaded = Some(json_loads(agg.written[1]))]
    /\ UNCHANGED <<now, _memory_cache, _memory_cache_expiry, redis_store, calls, monthly>>

NextAgg == Aggregate \/ Present \/ Dump \/ Load

SpecAgg == InitAgg /\ [][NextAgg]_vars

-----------------------------------------------------------------------------
(* The monthly revenue by itself: one call on each month, year and zone key *)

MonthlyYears == {2024, 2025, 9999}
MonthlyMonths == 1..12
MonthlyZones ==
    {None, Some("UTC"), Some("America/New_York"), Some("Asia/Kolkata"),
     Some("Mars/Olympus"), Some("america/new_york"), Some("")}

InitMonthly ==
    /\ now = 0
    /\ _memory_cache = <<>>
    /\ _memory_cache_expiry = <<>>
    /\ redis_store = <<>>
    /\ calls = [c \in Slots |-> IdleCall]
    /\ agg = AggIdle
    /\ monthly \in {[MonthlyIdle EXCEPT !.property_timezone = z, !.month = m, !.year = y] :
                        z \in MonthlyZones, m \in MonthlyMonths, y \in MonthlyYears}

\* reservations.py:6-50
calculate_monthly_revenue ==
    /\ monthly.pc = "idle"
    /\ LET out == MonthlyOutcome(ZoneInfo(TimezoneArgument(monthly.property_timezone)),
                                 monthly.month, monthly.year)
       IN  monthly' = [monthly EXCEPT !.pc = "done", !.outcome = out.outcome,
                                      !.error = out.error, !.tz = out.tz,
                                      !.start_utc = out.start_utc,
                                      !.end_utc = out.end_utc, !.result = out.result]
    /\ UNCHANGED <<now, _memory_cache, _memory_cache_expiry, redis_store, calls, agg>>

NextMonthly == calculate_monthly_revenue

SpecMonthly == InitMonthly /\ [][NextMonthly]_vars

-----------------------------------------------------------------------------
(* Claims about the aggregator, checked under SpecAgg                       *)

Chars_0_00 == <<"0", ".", "0", "0">>

\* the substitute figures of reservations.py:110-116, by property_id alone
SubstituteFigures(property_id) ==
    CASE property_id = "prop-001" -> [total |-> <<"1", "0", "0", "0", ".", "0", "0">>, count |-> 3]
      [] property_id = "prop-002" -> [total |-> <<"4", "9", "7", "5", ".", "5", "0">>, count |-> 4]
      [] property_id = "prop-003" -> [total |-> <<"6", "1", "0", "0", ".", "5", "0">>, count |-> 2]
      [] property_id = "prop-004" -> [total |-> <<"1", "7", "7", "6", ".", "5", "0">>, count |-> 4]
      [] property_id = "prop-005" -> [total |-> <<"3", "2", "5", "6", ".", "0", "0">>, count |-> 3]
      [] OTHER -> [total |-> Chars_0_00, count |-> 0]

\* C8: when the data store cannot be had or the query fails,
\* calculate_total_revenue returns a summary with the requested property_id
\* and tenant_id, currency "USD" and the total and count of a fixed table
\* keyed by property_id alone (prop-002: "4975.50" and 4; a property the
\* table lacks: "0.00" and 0), so two failing calls for one property agree.
C8_FallbackIsDeterministic ==
    (agg.result # None /\ agg.db.status # "ok") =>
        LET r == agg.result[1]
        IN  /\ r.property_id = agg.property_id
            /\ r.tenant_id = agg.tenant_id
            /\ r.currency = "USD"
            /\ r.total = SubstituteFigures(agg.property_id).total
            /\ r.count = SubstituteFigures(agg.property_id).count
            /\ agg.property_id = "prop-002" =>
                   r.total = <<"4", "9", "7", "5", ".", "5", "0">> /\ r.count = 4
            /\ agg.property_id = "prop-999" => r.total = Chars_0_00 /\ r.count = 0

C8_Witness ==
    /\ agg.result # None
    /\ agg.db.status = "query_error"
    /\ agg.property_id = "prop-002"
    /\ agg.tenant_id = "tenant-a"
    /\ agg.result[1].count = 4

IsDigit(ch) == \E i \in 1..10 : DigitChars[i] = ch

TwoFractionalDigits(s) ==
    /\ Len(s) >= 4
    /\ s[Len(s) - 2] = "."
    /\ IsDigit(s[Len(s) - 1])
    /\ IsDigit(s[Len(s)])
    /\ \A i \in 1..(Len(s) - 3) : IsDigit(s[i]) \/ (i = 1 /\ s[i] = "-")

\* the exact amount a call aggregates: the sum of the matching rows
ExactAmount ==
    LET row == FetchRow(agg.db.table, agg.property_id, agg.tenant_id)
    IN  IF agg.db.status = "ok" /\ row # None THEN row[1].total_revenue ELSE None

\* C9: every total of calculate_total_revenue and of get_dashboard_summary
\* has exactly two fractional digits, is the exact amount rounded half-up at
\* the second decimal, and quantizing twice equals quantizing once.
C9_TotalsAreRoundedHalfUp ==
    agg.result # None =>
        /\ TwoFractionalDigits(agg.result[1].total)
        /\ ExactAmount # None =>
               LET x == ExactAmount[1]
                   q == quantize(x, "ROUND_HALF_UP")
               IN  /\ agg.result[1].total = Decimal_str(q)
                   /\ quantize(q, "ROUND_HALF_UP") = q
                   /\ agg.response # None =>
                          agg.response[1].body[1].total_revenue = float(q)

\* the rows of the table a call's query matches
MatchingRows ==
    LET Match(r) == r.property_id = agg.property_id /\ r.tenant_id = agg.tenant_id
    IN  SelectSeq(agg.db.table, Match)

Abs(n) == IF n < 0 THEN 0 - n ELSE n

\* the two-decimal string s is within half a cent of the amount x
QuantizedFrom(s, x) ==
    LET q == Decimal(s)
        e == Min(x.exp, 0 - 2)
    IN  /\ TwoFractionalDigits(s)
        /\ 2 * Abs(SignedCoef(q, e) - SignedCoef(x, e)) <= Pow10((0 - 2) - e)

\* C16 as stated: with the data store reachable and the query succeeding,
\* calculate_total_revenue returns, when at least one row matches
\* (property_id, tenant_id), the summed amount quantized to two decimals and
\* the true number of matching rows, and, when no row matches, "0.00" and 0;
\* the count is never negative and the substitute figures are not used.
C16_StorePathAggregation ==
    (agg.result # None /\ agg.db.status = "ok") =>
        LET n == Len(MatchingRows)
            r == agg.result[1]
        IN  /\ r.property_id = agg.property_id
            /\ r.tenant_id = agg.tenant_id
            /\ r.count >= 0
            /\ n = 0 => (r.total = Chars_0_00 /\ r.count = 0)
            /\ n > 0 =>
                   /\ r.count = n
                   /\ ExactAmount # None => QuantizedFrom(r.total, ExactAmount[1])

\* C13: for every summary calculate_total_revenue produces (rows found, no
\* row, substitute figures), what json.loads makes of what json.dumps wrote
\* equals the summary field by field, the total being the same decimal
\* string with its two fractional digits.
C13_SerializationRoundTrip ==
    /\ agg.written # None =>
           /\ JsonDecodable(agg.written[1])
           /\ agg.written[1][3][2].type = "string"
    /\ agg.loaded # None =>
           /\ agg.loaded = agg.result
           /\ \A f \in {"property_id", "tenant_id", "total", "currency", "count"} :
                  agg.loaded[1][f] = agg.result[1][f]
           /\ TwoFractionalDigits(agg.loaded[1].total)

\* the round trip of a summary of the store path whose total ends in a zero
C13_Witness ==
    /\ agg.loaded # None
    /\ agg.db.status = "ok"
    /\ agg.result[1].count = 2
    /\ agg.loaded[1].total = <<"4", "9", "7", "5", ".", "5", "0">>

-----------------------------------------------------------------------------
(* Claims about the cache, checked under Spec                               *)

Started(c) == calls[c].pc # "idle"
Done(c) == calls[c].pc = "done"

\* every entry of either tier sits under the key of the pair it was computed for
EntriesUnderOwnKey ==
    /\ \A k \in DOMAIN _memory_cache :
           k = cache_key(_memory_cache[k].tenant_id, _memory_cache[k].property_id)
    /\ \A k \in DOMAIN redis_store :
           LET d == json_loads(redis_store[k].value)
           IN  k = cache_key(d.tenant_id, d.property_id)

\* C1: two tenants asking for one property get different keys, and no lookup
\* for (P, T2) returns an entry stored, in either tier, by a lookup for
\* (P, T1) with T1 # T2.
C1_CacheKeyIsolation ==
    /\ \A p \in DirectProperties : \A t1, t2 \in DirectTenants :
           t1 # t2 => cache_key(t1, p) # cache_key(t2, p)
    /\ EntriesUnderOwnKey
    /\ \A c \in Slots : calls[c].result # None =>
           ~ /\ calls[c].result[1].property_id = calls[c].property_id
             /\ calls[c].result[1].tenant_id # calls[c].tenant_id

C1_Witness ==
    /\ calls[1].tenant_id = "tenant-b" /\ calls[1].source = "compute" /\ calls[1].t_cached = 0
    /\ cache_key("tenant-b", "prop-002") \in DOMAIN _memory_cache
    /\ RedisLive(cache_key("tenant-b", "prop-002"))
    /\ calls[2].tenant_id = "tenant-a" /\ calls[2].property_id = "prop-002"
    /\ calls[2].source = "compute" /\ calls[2].t_cached = 0
    /\ calls[3].tenant_id = "tenant-a" /\ calls[3].source = "mem"

LocalTierUnchanged ==
    /\ _memory_cache' = _memory_cache
    /\ _memory_cache_expiry' = _memory_cache_expiry

\* C4: whatever the external tier does (get raises, bytes do not
\* deserialize, set raises), get_revenue_summary returns and never raises;
\* a failed get leaves the call exactly where a miss leaves it, about to
\* compute; what is returned is the live local entry or the summary freshly
\* computed for the requested pair.
C4_ExternalFailuresAreAbsorbed ==
    /\ [](\A c \in Slots : Done(c) =>
            /\ calls[c].outcome = "returned"
            /\ calls[c].result # None
            /\ calls[c].source \in {"mem", "redis", "compute"}
            /\ calls[c].source = "compute" =>
                   /\ calls[c].result = calls[c].computed
                   /\ calls[c].result[1].property_id = calls[c].property_id
                   /\ calls[c].result[1].tenant_id = calls[c].tenant_id)
    /\ [][\A c \in Slots :
            /\ (RedisGetRaises(c) \/ RedisGetReturns(c, Some(Garbage))
                    \/ RedisGetReturns(c, None)) =>
                   /\ calls'[c] = [calls[c] EXCEPT !.pc = "db", !.t_lookup = 0 - 1,
                                                   !.ops.redis_get = @ + 1]
                   /\ LocalTierUnchanged
                   /\ redis_store' = redis_store
            /\ RedisSetexRaises(c) =>
                   /\ calls'[c].outcome = "returned"
                   /\ calls'[c].result = calls[c].computed
                   /\ LocalTierUnchanged
            /\ (calls[c].pc = "idle" /\ calls'[c].source = "mem") =>
                   /\ calls'[c].key \in DOMAIN _memory_cache
                   /\ calls'[c].result = Some(_memory_cache[calls'[c].key])
                   /\ _memory_cache_expiry[calls'[c].key] >= now
                   /\ calls'[c].ops.compute = 0]_vars

\* every external operation of three lookups for one key failed or missed
C4_Witness ==
    /\ redis_store = <<>>
    /\ \A c \in Slots :
           /\ Done(c) /\ calls[c].source = "compute" /\ calls[c].key = calls[1].key
           /\ calls[c].ops.redis_get = 1 /\ calls[c].ops.redis_setex = 1

\* a lookup c enters in this step, while a's summary is less than a TTL old
EntersWithinTtlOf(a, c) ==
    /\ a # c
    /\ calls[a].computed # None
    /\ calls[c].pc = "idle" /\ calls'[c].pc # "idle"
    /\ calls'[c].key = calls[a].key
    /\ now < calls[a].t_cached + ttl_seconds

\* C5 as stated: once a lookup has computed and cached a summary at t0,
\* every later lookup for the pair at t < t0 + 300 returns that identical
\* summary without invoking calculate_total_revenue.
C5_LaterLookupReturnsIdentical ==
    [][\A a, c \in Slots : EntersWithinTtlOf(a, c) =>
            /\ calls'[c].pc = "done"
            /\ calls'[c].result = calls[a].computed
            /\ calls'[c].ops.compute = 0]_vars

\* C5 amended: such a lookup is answered by the local tier, with no
\* computation and no external call; the summary is the one cached at t0
\* unless another lookup for the pair has written the local tier at or
\* after t0.
C5_LaterLookupHitsLocalTier ==
    [][\A a, c \in Slots : EntersWithinTtlOf(a, c) =>
            /\ calls'[c].pc = "done"
            /\ calls'[c].source = "mem"
            /\ calls'[c].outcome = "returned"
            /\ calls'[c].result = Some(_memory_cache[calls[a].key])
            /\ calls'[c].ops.compute = 0
            /\ calls'[c].ops.redis_get = 0
            /\ calls'[c].ops.redis_setex = 0
            /\ \/ calls'[c].result = calls[a].computed
               \/ \E b \in Slots \ {a, c} :
                      /\ calls[b].key = calls[a].key
                      /\ calls[b].ops.mem_set > 0
                      /\ calls[b].t_cached >= calls[a].t_cached]_vars

\* a hit at 299 on the summary computed at 0, the external tier unreachable
C5_Witness ==
    /\ now = ttl_seconds - 1
    /\ redis_store = <<>>
    /\ calls[1].source = "compute" /\ calls[1].t_cached = 0
    /\ calls[2].source = "mem" /\ calls[2].key = calls[1].key
    /\ calls[2].result = calls[1].computed
    /\ calls[3].pc = "idle"

\* the time of the lookup that returns in this step
LookupTime(c) == IF calls[c].pc = "idle" THEN now ELSE calls[c].t_lookup

\* C6 as stated: a lookup made more than 300 s after the summary was computed
\* and cached does not return the cached summary (it recomputes), whatever
\* the two tiers hold.
C6_NoCachedReturnAfterTtl ==
    [][\A c \in Slots :
            (calls[c].pc \in {"idle", "redis_get"} /\ calls'[c].source \in {"mem", "redis"}) =>
                \E a \in Slots :
                    /\ calls[a].computed = calls'[c].result
                    /\ calls[a].key = calls'[c].key
                    /\ LookupTime(c) <= calls[a].t_cached + ttl_seconds]_vars

\* C7 as stated: a fresh summary is written to the local tier with expiry
\* write_time + 300 before the external write is attempted, and when the
\* call returns the local tier holds exactly that summary for the key,
\* whether the external write succeeded or raised.
C7_LocalTierHoldsSummaryAtReturn ==
    [][\A c \in Slots :
            /\ (calls[c].pc = "db" /\ calls'[c].pc # "db") =>
                   /\ _memory_cache'[calls[c].key] = calls'[c].computed[1]
                   /\ _memory_cache_expiry'[calls[c].key] = now + ttl_seconds
                   /\ redis_store' = redis_store
            /\ (calls[c].pc = "redis_setex" /\ calls'[c].pc # "redis_setex") =>
                   /\ calls'[c].outcome = "returned"
                   /\ calls'[c].result = calls[c].computed
                   /\ calls[c].key \in DOMAIN _memory_cache'
                   /\ _memory_cache'[calls[c].key] = calls[c].computed[1]]_vars

LocalEntry(mc, me, key) ==
    IF key \in DOMAIN mc THEN <<mc[key], me[key]>> ELSE <<>>

\* C7 amended: the local write (expiry write_time + 300) comes before the
\* external write is attempted; the external write, succeeding or raising,
\* leaves the local tier as it is and the call returns the computed summary;
\* between the local write and the return only a lookup for the same key
\* overwrites or purges the entry.
C7_LocalWriteFirstAndUnaffected ==
    [][\A c \in Slots :
            /\ (calls[c].pc = "db" /\ calls'[c].pc # "db") =>
                   /\ calls'[c].pc = "redis_setex"
                   /\ _memory_cache'[calls[c].key] = calls'[c].computed[1]
                   /\ _memory_cache_expiry'[calls[c].key] = now + ttl_seconds
                   /\ redis_store' = redis_store
            /\ (calls[c].pc = "redis_setex" /\ calls'[c].pc # "redis_setex") =>
                   /\ calls'[c].pc = "done"
                   /\ calls'[c].outcome = "returned"
                   /\ calls'[c].result = calls[c].computed
                   /\ LocalTierUnchanged
            /\ (/\ calls[c].pc = "redis_setex"
                /\ LocalEntry(_memory_cache', _memory_cache_expiry', calls[c].key)
                       # LocalEntry(_memory_cache, _memory_cache_expiry, calls[c].key)) =>
                   \E b \in Slots \ {c} :
                       calls'[b] # calls[b] /\ calls'[b].key = calls[c].key]_vars

\* the external write raised (nothing is stored) and the summary was returned
C7_Witness ==
    /\ Done(1) /\ calls[1].source = "compute" /\ calls[1].ops.redis_setex = 1
    /\ redis_store = <<>>
    /\ calls[2].pc = "idle"
    /\ _memory_cache[calls[1].key] = calls[1].result[1]
    /\ _memory_cache_expiry[calls[1].key] = calls[1].t_cached + ttl_seconds

CompleteSummary(c) ==
    /\ calls[c].outcome = "returned"
    /\ calls[c].result # None
    /\ LET r == calls[c].result[1]
       IN  /\ r.property_id = calls[c].property_id
           /\ r.tenant_id = calls[c].tenant_id
           /\ r.currency = "USD"
           /\ TwoFractionalDigits(r.total)
           /\ r.count >= 0

LookupsFor(k) == {c \in Slots : Started(c) /\ calls[c].key = k}

\* C10: however lookups for one pair interleave, each returns a complete
\* summary for that pair; when all have finished the local tier holds one
\* entry for the key, the summary computed by one of them; every external
\* write replaces the value under the key (the last write wins), and the
\* external tier holds nothing but such writes.
C10_ConcurrentMissesAreHarmless ==
    /\ [](\A c \in Slots : Done(c) => CompleteSummary(c))
    /\ [](\A c \in Slots : Started(c) =>
            LET k == calls[c].key
            IN  (\A d \in LookupsFor(k) : Done(d)) =>
                    /\ k \in DOMAIN _memory_cache
                    /\ k \in DOMAIN _memory_cache_expiry
                    /\ \E a \in LookupsFor(k) : calls[a].computed = Some(_memory_cache[k])
                    /\ k \in DOMAIN redis_store =>
                           \E a \in LookupsFor(k) :
                               /\ calls[a].computed # None
                               /\ redis_store[k].value = json_dumps(calls[a].computed[1]))
    /\ [][redis_store' # redis_store =>
            \E c \in Slots :
                /\ calls[c].pc = "redis_setex" /\ calls'[c].pc = "done"
                /\ redis_store' = MapPut(redis_store, calls[c].key,
                                         [value      |-> json_dumps(calls[c].computed[1]),
                                          expires_at |-> now + ttl_seconds])]_vars

\* three lookups for one key all missed and computed; two different
\* summaries were computed; the local tier keeps the one written last and
\* the external tier the one written last there
C10_Witness ==
    /\ \A c \in Slots : Done(c) /\ calls[c].source = "compute" /\ calls[c].key = calls[1].key
    /\ calls[1].computed # calls[2].computed
    /\ _memory_cache[calls[1].key] = calls[2].computed[1]
    /\ calls[1].key \in DOMAIN redis_store
    /\ redis_store[calls[1].key].value = json_dumps(calls[1].computed[1])

\* the call c makes its local-tier lookup (_mem_get) in this step
LooksUp(c) == calls[c].pc = "idle" /\ calls'[c].pc # "idle"

\* C14 as stated: a local-tier lookup at time now treats an entry with
\* now >= expires_at as absent and removes it from both maps at that moment,
\* and returns an entry with now < expires_at; an entry looked up exactly at
\* now = expires_at is absent.
C14_ExpiredAtExpiryInstant ==
    [][\A c \in Slots :
            (LooksUp(c) /\ calls'[c].key \in DOMAIN _memory_cache_expiry) =>
                LET k == calls'[c].key
                IN  IF now >= _memory_cache_expiry[k]
                    THEN /\ calls'[c].source # "mem"
                         /\ k \notin DOMAIN _memory_cache'
                         /\ k \notin DOMAIN _memory_cache_expiry'
                    ELSE /\ calls'[c].source = "mem"
                         /\ calls'[c].result = Some(_memory_cache[k])
                         /\ LocalTierUnchanged]_vars

\* C15: when the local tier missed and the external get answers a value that
\* deserializes, get_revenue_summary returns the deserialized value, does not
\* invoke calculate_total_revenue, does not write the external tier, and
\* stores the value in the local tier with a TTL of 300 s; while that TTL
\* runs, a later lookup for the key is answered locally with no external
\* call.
C15_ExternalHitRepopulatesLocalTier ==
    [][\A c \in Slots :
            /\ \A cached \in RedisAnswers(calls[c].key) :
                   (/\ cached # None
                    /\ JsonDecodable(cached[1])
                    /\ RedisGetReturns(c, cached)) =>
                       LET data == json_loads(cached[1])
                           k    == calls[c].key
                       IN  /\ calls'[c].pc = "done"
                           /\ calls'[c].outcome = "returned"
                           /\ calls'[c].source = "redis"
                           /\ calls'[c].result = Some(data)
                           /\ calls'[c].ops.compute = 0
                           /\ calls'[c].ops.redis_setex = 0
                           /\ calls'[c].ops.redis_get = 1
                           /\ redis_store' = redis_store
                           /\ k \in DOMAIN _memory_cache'
                           /\ _memory_cache'[k] = data
                           /\ _memory_cache_expiry'[k] = now + ttl_seconds
            /\ (/\ LooksUp(c)
                /\ \E a \in Slots \ {c} :
                       /\ calls[a].source = "redis"
                       /\ calls[a].key = calls'[c].key
                       /\ now < calls[a].t_cached + ttl_seconds) =>
                   /\ calls'[c].source = "mem"
                   /\ calls'[c].ops.redis_get = 0
                   /\ calls'[c].ops.redis_setex = 0
                   /\ calls'[c].ops.compute = 0
                   /\ redis_store' = redis_store]_vars

\* an external hit on the value another lookup wrote, and a local hit at 299
\* on the entry the external hit stored
C15_Witness ==
    /\ now = ttl_seconds - 1
    /\ calls[1].source = "compute"
    /\ calls[2].source = "redis" /\ calls[2].ops.compute = 0 /\ calls[2].t_cached = 0
    /\ calls[2].result = calls[1].computed
    /\ calls[3].source = "mem" /\ calls[3].ops.redis_get = 0
    /\ calls[3].result = calls[2].result

\* C17: one get_revenue_summary call makes at most one external get and at
\* most one external set (and computes at most once); an external operation
\* that failed is not sent again by that call; a call answered by the local
\* tier makes no external operation and computes nothing.
C17_NoAutomaticRetry ==
    /\ [](\A c \in Slots :
            /\ calls[c].ops.redis_get <= 1
            /\ calls[c].ops.redis_setex <= 1
            /\ calls[c].ops.compute <= 1
            /\ calls[c].ops.mem_get <= 1
            /\ calls[c].source = "mem" =>
                   /\ calls[c].ops.redis_get = 0
                   /\ calls[c].ops.redis_setex = 0
                   /\ calls[c].ops.compute = 0)
    /\ [][\A c \in Slots :
            /\ (RedisGetRaises(c) \/ RedisGetReturns(c, Some(Garbage))) =>
                   calls'[c].pc = "db"
            /\ RedisSetexRaises(c) => calls'[c].pc = "done"
            /\ (calls[c].pc \in {"db", "redis_setex", "done"}) =>
                   calls'[c].pc # "redis_get"
            /\ calls[c].pc = "done" => calls'[c] = calls[c]]_vars

\* a call whose external get and external set both failed, each sent once,
\* and a later call answered by the local tier
C17_Witness ==
    /\ Done(1)
    /\ calls[1].ops = [mem_get |-> 1, mem_set |-> 1, redis_get |-> 1,
                       redis_setex |-> 1, compute |-> 1]
    /\ redis_store = <<>>
    /\ Done(2) /\ calls[2].source = "mem"
    /\ calls[2].ops = [NoOps EXCEPT !.mem_get = 1]

\* the times at which the summary d was computed for the key k
ComputedAt(k, d) ==
    {calls[a].t_cached : a \in {b \in Slots : /\ calls[b].computed = Some(d)
                                              /\ calls[b].key = k}}

\* C18 as stated: a summary returned for a lookup made at time t was
\* computed by calculate_total_revenue at some t0 with t - t0 <= 300, and a
\* local entry, also one stored from an external-tier hit, never lives past
\* the TTL counted from the computation of its value.
C18_StalenessBound ==
    /\ [](\A k \in DOMAIN _memory_cache :
            \E t0 \in ComputedAt(k, _memory_cache[k]) :
                _memory_cache_expiry[k] <= t0 + ttl_seconds)
    /\ [][\A c \in Slots :
            (calls[c].pc # "done" /\ calls'[c].pc = "done" /\ calls'[c].result # None) =>
                \E t0 \in ComputedAt(calls'[c].key, calls'[c].result[1]) :
                    LookupTime(c) - t0 <= ttl_seconds]_vars

\* C20: wherever the lookups stand (between any two steps of any
\* interleaving, after every _mem_get and _mem_set) the value map and the
\* expiry map of the local tier have the same keys: no value without an
\* expiry, no expiry without a value.
C20_LocalMapsHaveSameKeys ==
    /\ DOMAIN _memory_cache = DOMAIN _memory_cache_expiry
    /\ \A k \in DOMAIN _memory_cache_expiry : _memory_cache_expiry[k] >= ttl_seconds

\* the entry cached at 0 was purged by a lookup at 301 that now waits for the
\* external tier, and a third lookup has stored an entry again
C20_Witness ==
    /\ now = ttl_seconds + 1
    /\ calls[1].t_cached = 0 /\ calls[1].source = "compute"
    /\ calls[2].pc = "redis_get" /\ calls[2].t_lookup = ttl_seconds + 1
    /\ calls[3].t_cached = ttl_seconds + 1
    /\ DOMAIN _memory_cache = {calls[1].key}
    /\ _memory_cache_expiry[calls[1].key] = 2 * ttl_seconds + 1

-----------------------------------------------------------------------------
(* Claims about the key, checked under SpecColon                            *)

\* the summary a finished lookup returned carries the identifiers it asked for
ReturnsOwnPair(c) ==
    calls[c].result # None =>
        /\ calls[c].result[1].property_id = calls[c].property_id
        /\ calls[c].result[1].tenant_id = calls[c].tenant_id

\* C19 as stated: the key "revenue:{tenant_id}:{property_id}" is different
\* for different pairs of non-empty identifiers, also when an identifier
\* contains ':', and the summary get_revenue_summary(p, t) returns always
\* carries property_id = p and tenant_id = t.
C19_KeyIsInjective ==
    /\ \A c \in Slots : ReturnsOwnPair(c)
    /\ \A c, d \in Slots :
           (/\ Started(c) /\ Started(d)
            /\ <<calls[c].property_id, calls[c].tenant_id>>
                   # <<calls[d].property_id, calls[d].tenant_id>>) =>
               calls[c].key # calls[d].key

-----------------------------------------------------------------------------
(* Claims about the endpoint, checked under SpecDash                        *)

\* the tenant has no registered property, or the property is not listed under it
NotListed(tenant_id, property_id) ==
    \/ tenant_id \notin DOMAIN TENANT_PROPERTIES
    \/ property_id \notin TENANT_PROPERTIES[tenant_id]

NotFound == [status |-> 404, detail |-> "Property not found", body |-> None]

\* C2: a request whose tenant does not own the property ends in the
\* not-found outcome in the step that receives it; it reads and writes no
\* tier, computes nothing, and both tiers are as they were.
C2_AuthorizationPrecedesAllWork ==
    /\ [](\A c \in Slots :
            (Started(c) /\ NotListed(calls[c].tenant_id, calls[c].property_id)) =>
                /\ Done(c)
                /\ calls[c].outcome = "http_error"
                /\ calls[c].response = Some(NotFound)
                /\ calls[c].ops = NoOps
                /\ calls[c].result = None
                /\ calls[c].computed = None)
    /\ [][\A c \in Slots :
            (/\ calls[c].pc = "idle" /\ calls'[c].pc # "idle"
             /\ NotListed(calls'[c].tenant_id, calls'[c].property_id)) =>
                /\ LocalTierUnchanged
                /\ redis_store' = redis_store]_vars

\* a refused request while both tiers hold the owner's entry
C2_Witness ==
    /\ Done(1) /\ calls[1].tenant_id = "tenant-b" /\ calls[1].source = "compute"
    /\ DOMAIN _memory_cache = {cache_key("tenant-b", "prop-002")}
    /\ DOMAIN redis_store = {cache_key("tenant-b", "prop-002")}
    /\ Done(2) /\ calls[2].tenant_id = "tenant-a" /\ calls[2].property_id = "prop-002"
    /\ calls[2].outcome = "http_error"

\* C3: a request for a property its tenant does not own is answered 404
\* "Property not found", the same whether another tenant owns the property
\* or nobody does and whatever the tiers hold; no answer is a 403.
C3_NotAuthorizedLooksNotFound ==
    /\ \A c \in Slots :
           (Done(c) /\ NotListed(calls[c].tenant_id, calls[c].property_id)) =>
               calls[c].response = Some(NotFound)
    /\ \A c \in Slots : calls[c].response # None =>
           calls[c].response[1].status \in {200, 404}

\* one tenant refused twice, for another tenant's property and for nobody's,
\* with the same answer, while the owner's entry is cached
C3_Witness ==
    /\ calls[1].tenant_id = "tenant-b" /\ calls[1].response # None
    /\ calls[1].response[1].status = 200
    /\ cache_key("tenant-b", "prop-002") \in DOMAIN _memory_cache
    /\ calls[2].tenant_id = "tenant-a" /\ calls[2].property_id = "prop-002"
    /\ calls[3].tenant_id = "tenant-a" /\ calls[3].property_id = "prop-999"
    /\ Done(2) /\ Done(3)
    /\ calls[2].response = calls[3].response

-----------------------------------------------------------------------------
(* Claims about the month bounds, checked under SpecMonthly                 *)

DaysBeforeYear(year) ==
    LET y == year - 1 IN y * 365 + y \div 4 - y \div 100 + y \div 400

RECURSIVE DaysBeforeMonth(_, _)
DaysBeforeMonth(year, month) ==
    IF month = 1 THEN 0
    ELSE DaysBeforeMonth(year, month - 1) + DaysInMonth(year, month - 1)

\* the number of the day, counted from 0001-01-01
Ordinal(year, month, day) == DaysBeforeYear(year) + DaysBeforeMonth(year, month) + day

\* the UTC instant utc is 00:00 on the first of (year, month) on the clocks of tz
IsFirstInstantOfMonth(utc, tz, year, month) ==
    LET off   == utcoffset(tz, [month |-> month])
        total == utc.hour * 60 + utc.minute + off
    IN  /\ total % 1440 = 0
        /\ Ordinal(utc.year, utc.month, utc.day) + total \div 1440 = Ordinal(year, month, 1)

MonthlyZoneKnown == TimezoneArgument(monthly.property_timezone) \in ZoneKeys

At(year, month, day, hour, minute) ==
    [year |-> year, month |-> month, day |-> day, hour |-> hour, minute |-> minute]

\* C11: for every year and every month in 1..12 (and a zone the database
\* knows) calculate_monthly_revenue computes start as 00:00 on day 1 of
\* (year, month) and end as 00:00 on day 1 of the following month, month 12
\* rolling over to month 1 of year + 1, both on the clocks of the property's
\* zone and converted to UTC; America/New_York, February 2024 gives
\* 2024-02-01T05:00Z and 2024-03-01T05:00Z.
C11_MonthBoundsForEveryMonth ==
    (monthly.pc = "done" /\ MonthlyZoneKnown /\ monthly.month \in 1..12) =>
        /\ monthly.outcome = "returned"
        /\ monthly.tz = Some(TimezoneArgument(monthly.property_timezone))
        /\ IsFirstInstantOfMonth(monthly.start_utc[1], monthly.tz[1],
                                 monthly.year, monthly.month)
        /\ IF monthly.month < 12
           THEN IsFirstInstantOfMonth(monthly.end_utc[1], monthly.tz[1],
                                      monthly.year, monthly.month + 1)
           ELSE IsFirstInstantOfMonth(monthly.end_utc[1], monthly.tz[1],
                                      monthly.year + 1, 1)
        /\ (/\ monthly.property_timezone = Some("America/New_York")
            /\ monthly.year = 2024 /\ monthly.month = 2) =>
               /\ monthly.start_utc = Some(At(2024, 2, 1, 5, 0))
               /\ monthly.end_utc = Some(At(2024, 3, 1, 5, 0))

\* C12: a zone key the database does not recognize ends
\* calculate_monthly_revenue in an error raised to its caller: nothing is
\* returned, and no month bounds are computed in UTC or any other zone put
\* in its place.
C12_InvalidTimezoneIsFatal ==
    (monthly.pc = "done" /\ ~MonthlyZoneKnown) =>
        /\ monthly.outcome = "raised"
        /\ monthly.error \in {"ZoneInfoNotFoundError", "ValueError"}
        /\ monthly.tz = None
        /\ monthly.start_utc = None
        /\ monthly.end_utc = None
        /\ monthly.result = None

\* a key differing from a known one only in case
C12_Witness ==
    /\ monthly.pc = "done"
    /\ monthly.property_timezone = Some("america/new_york")
    /\ monthly.outcome = "raised"
    /\ monthly.error = "ZoneInfoNotFoundError"

====
